---- MODULE Spec2Model ----
(***************************************************************************)
(* A model of mtrf/model.py: the TRF class (temporal response function).   *)
(*                                                                         *)
(* Arrays are objects on a heap: a model's weights, bias and times fields  *)
(* hold references, so that copying and aliasing are distinguishable.      *)
(* The caller's data is described by its shape; the numbers that training  *)
(* computes from the data (the solution of the normal equations) are a     *)
(* function Solve of the data set, the regularization and the position in  *)
(* the solution matrix.  Times in seconds are exact fractions <<n, d>>.    *)
(* mtrf.matrices and mtrf.crossval are imported by model.py; the operators *)
(* that stand for them follow the written specification of those modules.  *)
(***************************************************************************)
EXTENDS Integers, Sequences, FiniteSets, TLC

VARIABLES
    trf,    \* model slot -> the TRF object bound to it (its __dict__), or NoModel
    heap,   \* array reference -> contents of the array, or Free
    data,   \* the caller's trial collection: shapes, sample rate, content
    file,   \* the file written by save, or NoFile
    fit,    \* the frame of a running fit call (pc = "idle" when none runs)
    last    \* the last completed call: operation, arguments, outcome, result

vars == <<trf, heap, data, file, fit, last>>

(***************************************************************************)
(* Bounds of the model.                                                    *)
(***************************************************************************)
MaxFeat == 2        \* a stimulus or response has 1 or MaxFeat features
MaxFs == 2          \* the sample rate is 1 or MaxFs
MaxT == 1           \* tmin, tmax are -MaxT, 0 or MaxT over TimeDen seconds
TimeDen == 2
MaxSamples == 3     \* a trial has MaxSamples or MaxSamples + 1 samples
MaxTrials == 2      \* a trial collection has 1 or MaxTrials trials
MaxReg == 1         \* a scalar regularization value is 0 or MaxReg
MaxCand == 2        \* a candidate list holds 0..MaxCand values
MaxCorr == 1        \* a cross-validation score is in 0..MaxCorr, or NaN

(***************************************************************************)
(* Python values.                                                          *)
(***************************************************************************)
None == [tag |-> "None"]
Flag(b) == [tag |-> "bool", bool |-> b]
Num(n) == [tag |-> "num", num |-> n]
Arr(r) == [tag |-> "ndarray", ref |-> r]
\* a square regularization matrix, given by whether it is diagonal and by
\* the sequence of the coefficients of its bands
Mat(d, c) == [tag |-> "matrix", diagonal |-> d, coef |-> c]
List(s) == [tag |-> "list", items |-> s]
NaN == [tag |-> "nan"]

NoModel == [tag |-> "unbound"]
NoFile == [tag |-> "nofile"]
Free == <<>>

ModelIds == {"a", "b", "r", "cv"}
ArrayFields == {"weights", "bias", "times"}
\* the array a slot's object allocates for a field; no two objects share one
Refs == ModelIds \X ArrayFields

(***************************************************************************)
(* Arithmetic.                                                             *)
(***************************************************************************)
Abs(n) == IF n < 0 THEN -n ELSE n

RECURSIVE Gcd(_, _)
Gcd(m, n) == IF n = 0 THEN m ELSE Gcd(n, m % n)

\* the fraction n / d (d > 0) in lowest terms
Frac(n, d) == LET g == Gcd(Abs(n), d) IN <<n \div g, d \div g>>

\* floor and ceiling of n / d (d > 0)
Floor(n, d) == n \div d
Ceil(n, d) == -((-n) \div d)

\* list(range(lo, hi + 1))
Range(lo, hi) == [i \in 1..(IF hi >= lo THEN hi - lo + 1 ELSE 0) |-> lo + i - 1]

(***************************************************************************)
(* Arrays.  An array is described by its shape (a sequence of axis         *)
(* lengths); the arrays a model owns also carry their contents.            *)
(***************************************************************************)
ndim(x) == Len(x.shape)

\* np.expand_dims(x, axis=0)
expand_dims(x) == [x EXCEPT !.shape = <<1>> \o x.shape]

\* x[i_trial]: one entry along the first axis
Trial(x) == [x EXCEPT !.shape = Tail(x.shape)]

\* the shape of a weight tensor w[f][l][o]
ShapeOf(w) ==
    <<Len(w),
      IF Len(w) = 0 THEN 0 ELSE Len(w[1]),
      IF Len(w) = 0 \/ Len(w[1]) = 0 THEN 0 ELSE Len(w[1][1])>>

IsArr(v) == v.tag = "ndarray"

(***************************************************************************)
(* The caller's data: stimulus and response arrays of a common sample rate. *)
(* seed stands for the recorded numbers; singular says that the lagged      *)
(* design of this data is rank deficient.                                   *)
(***************************************************************************)
DataShape(rank, trials, samples, features) ==
    CASE rank = 2 -> <<samples, features>>
      [] rank = 3 -> <<trials, samples, features>>
      [] OTHER -> <<trials, samples, features, 1>>

DataSet(srank, rrank, trials, samples, S, R, fs, singular) ==
    [stimulus |-> [shape |-> DataShape(srank, trials, samples, S)],
     response |-> [shape |-> DataShape(rrank, trials, samples, R)],
     fs |-> fs, seed |-> 1, singular |-> singular]

FeatureCounts == {1, MaxFeat}
SampleRates == {1, MaxFs}
TrialCounts == {1, MaxTrials}
SampleCounts == {MaxSamples, MaxSamples + 1}

\* trial x sample x feature collections
WellFormed(trials, singular) ==
    {DataSet(3, 3, n, MaxSamples, S, R, fs, sing) :
        n \in trials, S \in FeatureCounts, R \in FeatureCounts,
        fs \in SampleRates, sing \in singular}

\* collections whose stimulus or response is not of rank 3
IllFormed ==
    {DataSet(sr, rr, 1, MaxSamples, 1, 1, MaxFs, FALSE) :
        sr \in 2..4, rr \in 2..4} \ WellFormed({1}, {FALSE})

(***************************************************************************)
(* TRF.__init__                                                            *)
(***************************************************************************)
Directions == {1, -1}
Kinds == {"multi", "single"}
Methods == {"ridge", "tikhonov", "banded"}

TRFInit(direction, kind, zeropad, bias, method) ==
    [weights |-> None, bias |-> Flag(bias), times |-> None, fs |-> None,
     regularization |-> None, direction |-> direction, kind |-> kind,
     zeropad |-> zeropad, method |-> method]

Constructed ==
    {TRFInit(d, k, z, b, m) :
        d \in Directions, k \in Kinds, z \in BOOLEAN, b \in BOOLEAN, m \in Methods}

\* the constructions of either direction that differ from the default one in
\* no other argument, in every other argument, or in the method alone
SomeConstructed ==
    {TRFInit(d, c[1], c[2], c[3], c[4]) :
        d \in Directions,
        c \in {<<"multi", TRUE, TRUE, "ridge">>,
               <<"single", FALSE, FALSE, "tikhonov">>,
               <<"multi", TRUE, TRUE, "banded">>}}

\* TRF(): every argument at its default
DefaultTRF == TRFInit(1, "multi", TRUE, TRUE, "ridge")

Fields == DOMAIN DefaultTRF

(***************************************************************************)
(* TRF.copy: a new object in slot dst; every attribute that has a copy      *)
(* method is copied, the others are assigned.                               *)
(***************************************************************************)
\* the attributes that hold None, a number, a flag or an array; direction,
\* kind, zeropad and method hold an int, a str or a bool, which have no copy
FittedFields == {"weights", "bias", "times", "fs", "regularization"}

\* getattr(v, "copy", None) is not None, for the attribute k of self
HasCopy(self, k) ==
    k \in FittedFields /\ self[k].tag \in {"ndarray", "matrix", "list"}

\* CopyValue that assigns the array itself
CopyValueAlias(v, dst, k) == v

\* v.copy(): an array is copied into a new array, owned by the object in dst
CopyValue(v, dst, k) == IF IsArr(v) THEN Arr(<<dst, k>>) ELSE v

copy(t, h, m, dst) ==
    LET self == t[m]
        new == [k \in Fields |->
                   IF HasCopy(self, k) THEN CopyValue(self[k], dst, k) ELSE self[k]]
        fresh(k) == k \in FittedFields /\ IsArr(new[k]) /\ new[k].ref = <<dst, k>>
    IN  [trf |-> [t EXCEPT ![dst] = new],
         heap |-> [r \in Refs |->
                      IF r[1] = dst
                      THEN IF fresh(r[2]) THEN h[self[r[2]].ref] ELSE Free
                      ELSE h[r]]]

(***************************************************************************)
(* TRF.train                                                               *)
(***************************************************************************)
\* tmin, tmax are given as numerators over TimeDen
LagMin(tmin, fs) == Floor(tmin * fs, TimeDen)     \* int(np.floor(tmin * fs))
LagMax(tmax, fs) == Ceil(tmax * fs, TimeDen)      \* int(np.ceil(tmax * fs))

\* TrainWindow with the bounds of a backward model swapped but not negated
TrainWindowNotNegated(direction, tmin, tmax) ==
    IF direction = -1 THEN <<tmax, tmin>> ELSE <<tmin, tmax>>

\* the time window train uses: swapped and negated for a backward model
TrainWindow(direction, tmin, tmax) ==
    IF direction = -1 THEN <<-1 * tmax, -1 * tmin>> ELSE <<tmin, tmax>>

TrainLags(direction, fs, tmin, tmax) ==
    LET w == TrainWindow(direction, tmin, tmax)
    IN  Range(LagMin(w[1], fs), LagMax(w[2], fs))

\* TrainXY with the direction ignored
TrainXYForward(direction, stimulus, response) == <<stimulus, response>>

\* xs, ys: the input and the output of the regression
TrainXY(direction, stimulus, response) ==
    IF direction = 1 THEN <<stimulus, response>> ELSE <<response, stimulus>>

\* the check of a regularization matrix: it must be diagonal
NotDiagonal(regularization) ==
    regularization.tag = "matrix" /\ ~regularization.diagonal

\* the coefficients of a regularization value
Coefs(regularization) ==
    IF regularization.tag = "matrix" THEN regularization.coef
    ELSE <<regularization.num>>

RegCoef(regularization) ==
    Coefs(regularization)[1] + Coefs(regularization)[Len(Coefs(regularization))]

\* np.linalg.inv(cov_xx + regmat) raises: the regularized covariance is
\* singular only for rank deficient data some of which is not regularized
InvRaises(d, regularization) ==
    d.singular /\ \E i \in DOMAIN Coefs(regularization) : Coefs(regularization)[i] = 0

\* np.matmul(np.linalg.inv(cov_xx + regmat), cov_xy) / delta: a matrix of
\* rows x cols numbers determined by the data and the regularization
Solve(d, regularization, rows, cols) ==
    [i \in 1..rows |-> [j \in 1..cols |->
        1000 * d.seed + 100 * RegCoef(regularization) + (i - 1) * cols + j]]

\* weight_matrix[1:].reshape((F, L, O), order="F")
Unflatten(weight_matrix, F, L, O) ==
    [f \in 1..F |-> [l \in 1..L |-> [o \in 1..O |->
        weight_matrix[1 + f + (l - 1) * F][o]]]]

\* np.array(lags) / fs
TimesOf(lags, fs) == [i \in 1..Len(lags) |-> Frac(lags[i], fs)]

Raised(t, h, e) == [trf |-> t, heap |-> h, raised |-> e]

train(t, h, m, d, stimulus, response, fs, tmin, tmax, regularization) ==
    LET both2 == ndim(stimulus) = 2 /\ ndim(response) = 2
        stim == IF both2 THEN expand_dims(stimulus) ELSE stimulus
        resp == IF both2 THEN expand_dims(response) ELSE response
        self == t[m]
        \* lines 215-216
        t1 == [t EXCEPT ![m] = [self EXCEPT !.fs = Num(fs),
                                            !.regularization = regularization]]
        xy == TrainXY(self.direction, stim, resp)
        x == Trial(xy[1])
        y == Trial(xy[2])
        lags == TrainLags(self.direction, fs, tmin, tmax)
        F == x.shape[2]
        O == y.shape[2]
        weight_matrix == Solve(d, regularization, 1 + F * Len(lags), O)
    IN  IF NotDiagonal(regularization) THEN Raised(t, h, "ValueError")
        ELSE IF ~(ndim(x) = 2 /\ ndim(y) = 2) THEN Raised(t1, h, "AssertionError")
        ELSE IF InvRaises(d, regularization) THEN Raised(t1, h, "LinAlgError")
        ELSE [trf |-> [t1 EXCEPT ![m].bias = Arr(<<m, "bias">>),
                                 ![m].weights = Arr(<<m, "weights">>),
                                 ![m].times = Arr(<<m, "times">>),
                                 ![m].fs = Num(fs)],
              heap |-> [h EXCEPT ![<<m, "bias">>] = <<weight_matrix[1]>>,
                                 ![<<m, "weights">>] =
                                     Unflatten(weight_matrix, F, Len(lags), O),
                                 ![<<m, "times">>] = TimesOf(lags, fs)],
              raised |-> ""]

\* the windows the data model allows: lag_min <= lag_max
Times == {-MaxT, 0, MaxT}
ValidWindow(fs, tmin, tmax) == LagMin(tmin, fs) <= LagMax(tmax, fs)

Scalars == {Num(0), Num(MaxReg)}
Matrices == {Mat(dg, <<MaxReg>>) : dg \in BOOLEAN}

(***************************************************************************)
(* Calls.                                                                   *)
(***************************************************************************)
Idle == [pc |-> "idle"]

Bound(m) == trf[m] # NoModel

\* trf[m].train(stimulus, response, fs, tmin, tmax, regularization)
Train(m, tmin, tmax, regularization) ==
    /\ fit = Idle
    /\ Bound(m)
    /\ ValidWindow(data.fs, tmin, tmax)
    /\ LET res == train(trf, heap, m, data, data.stimulus, data.response,
                        data.fs, tmin, tmax, regularization)
       IN  /\ trf' = res.trf
           /\ heap' = res.heap
           /\ last' = [op |-> "train", self |-> m, tmin |-> tmin, tmax |-> tmax,
                       regularization |-> regularization, raised |-> res.raised]
    /\ UNCHANGED <<data, file, fit>>

NoCall == [op |-> "none"]

InitWith(slots, constructed, datasets) ==
    /\ trf \in {t \in [ModelIds -> constructed \cup {NoModel}] :
                   \A m \in ModelIds : t[m] # NoModel <=> m \in slots}
    /\ heap = [r \in Refs |-> Free]
    /\ data \in datasets
    /\ file = NoFile
    /\ fit = Idle
    /\ last = NoCall

\* training alone, of one model, on any data
InitTrain ==
    InitWith({"a"}, SomeConstructed, WellFormed({MaxTrials}, BOOLEAN) \cup IllFormed)

NextTrain ==
    \E tmin \in Times, tmax \in Times, r \in Scalars \cup Matrices :
        Train("a", tmin, tmax, r)

SpecTrain == InitTrain /\ [][NextTrain]_vars

(***************************************************************************)
(* Properties of train.                                                    *)
(***************************************************************************)
\* the number of features of an array: the length of its last axis
Features(x) == x.shape[Len(x.shape)]

Trained(m) == Bound(m) /\ IsArr(trf[m].weights)
Weights(m) == heap[trf[m].weights.ref]
Bias(m) == heap[trf[m].bias.ref]
TimeAxis(m) == heap[trf[m].times.ref]

TrainSucceeded == last.op = "train" /\ last.raised = ""

\* ceil(tmax*fs) - floor(tmin*fs) + 1
NumLags(fs, tmin, tmax) == LagMax(tmax, fs) - LagMin(tmin, fs) + 1

\* C1: after a successful train on data with S stimulus and R response
\* features the weight tensor has shape (S, L, R) in a forward model and
\* (R, L, S) in a backward model, L = ceil(tmax*fs) - floor(tmin*fs) + 1, and the
\* time axis has L entries.
C1_WeightShape ==
    TrainSucceeded =>
        LET m == last.self
            S == Features(data.stimulus)
            R == Features(data.response)
            L == NumLags(data.fs, last.tmin, last.tmax)
        IN  /\ ShapeOf(Weights(m)) =
                   IF trf[m].direction = 1 THEN <<S, L, R>> ELSE <<R, L, S>>
            /\ Len(TimeAxis(m)) = L

\* a backward model trained on data with more stimulus than response features,
\* over a window of several lags
C1_Witness ==
    /\ TrainSucceeded
    /\ trf[last.self].direction = -1
    /\ Features(data.stimulus) > Features(data.response)
    /\ NumLags(data.fs, last.tmin, last.tmax) > 1

\* C6 as claimed: a train or fit call that raises leaves every field of the
\* model, and every array it owns, as it was before the call.
C6_NoPartialMutation ==
    [][(last'.op \in {"train", "fit"} /\ last'.raised # "")
          => (trf' = trf /\ heap' = heap)]_vars

\* C9: the lag window a backward model is trained on is the forward window
\* [floor(tmin*fs), ceil(tmax*fs)] negated and swapped, so its time axis is
\* -ceil(tmax*fs)/fs .. -floor(tmin*fs)/fs and both windows hold as many lags.
C9_BackwardWindow ==
    (TrainSucceeded /\ trf[last.self].direction = -1) =>
        LET fs == data.fs
            lo == LagMin(last.tmin, fs)
            hi == LagMax(last.tmax, fs)
        IN  /\ TimeAxis(last.self) = TimesOf(Range(-hi, -lo), fs)
            /\ Len(TimeAxis(last.self)) = Len(Range(lo, hi))

\* a backward model trained on a window that is not symmetric about zero and
\* whose bounds are not whole samples
C9_Witness ==
    /\ TrainSucceeded
    /\ trf[last.self].direction = -1
    /\ LagMin(last.tmin, data.fs) # -LagMax(last.tmax, data.fs)
    /\ (last.tmax * data.fs) % TimeDen # 0

\* the attributes __init__ sets from its arguments
Configuration == {"direction", "kind", "zeropad", "bias", "method"}

\* C14 as claimed: a train call leaves the configuration chosen at
\* construction (direction, kind, zero-pad flag, bias-inclusion flag, method)
\* as it was.
C14_TrainKeepsConfiguration ==
    [][last'.op = "train"
          => \A k \in Configuration : trf'[last'.self][k] = trf[last'.self][k]]_vars

(***************************************************************************)
(* TRF.predict                                                             *)
(***************************************************************************)
\* range(int(np.floor(times[0] * fs)), int(np.ceil(times[-1] * fs)) + 1)
PredictLags(times, fs) ==
    Range(Floor(times[1][1] * fs, times[1][2]),
          Ceil(times[Len(times)][1] * fs, times[Len(times)][2]))

\* mtrf.matrices.lag_matrix: the number of rows of the lagged design of a
\* series of n samples; without zero padding the rows for which some lag
\* reads outside the series are dropped
LagMatrixRows(n, lags, zeropad) ==
    IF zeropad THEN n
    ELSE LET max_lag == CHOOSE a \in {lags[i] : i \in DOMAIN lags} :
                            \A i \in DOMAIN lags : lags[i] <= a
             min_lag == CHOOSE a \in {lags[i] : i \in DOMAIN lags} :
                            \A i \in DOMAIN lags : lags[i] >= a
             rows == n - (max_lag - min_lag)
         IN  IF rows > 0 THEN rows ELSE 0

\* a lag or feature argument as a list of indices: if not isinstance(lag,
\* Iterable): lag = [lag]
Selection(sel) ==
    IF sel.tag = "num" THEN <<sel.num>>
    ELSE [i \in DOMAIN sel.items |-> sel.items[i].num]

\* the position, counted from 1, that the Python index i has in an axis of n
\* entries; 0 when the index is out of range
Index(i, n) ==
    IF 0 <= i /\ i < n THEN i + 1
    ELSE IF -n <= i /\ i < 0 THEN n + i + 1
    ELSE 0

\* the positions an argument selects in an axis of n entries: all when None
Select(sel, n) ==
    IF sel = None THEN [i \in 1..n |-> i]
    ELSE [i \in DOMAIN Selection(sel) |-> Index(Selection(sel)[i], n)]

OutOfRange(positions) == \E i \in DOMAIN positions : positions[i] = 0

\* a.reshape(rows, cols, order="C") of a tensor a[f][l][o]: the entries are
\* read and written with the last index changing fastest
ReshapeC(a, rows, cols) ==
    LET B == ShapeOf(a)[2]
        C == ShapeOf(a)[3]
    IN  [r \in 1..rows |-> [c \in 1..cols |->
            LET k == (r - 1) * cols + (c - 1)
            IN  a[(k \div (B * C)) + 1][((k \div C) % B) + 1][(k % C) + 1]]]

\* a.reshape(rows, cols, order="F") of a tensor a[f][l][o]: the entries are
\* read and written with the first index changing fastest
ReshapeF(a, rows, cols) ==
    LET A == ShapeOf(a)[1]
        B == ShapeOf(a)[2]
    IN  [r \in 1..rows |-> [c \in 1..cols |->
            LET k == (r - 1) + (c - 1) * rows
            IN  a[(k % A) + 1][((k \div A) % B) + 1][(k \div (A * B)) + 1]]]

\* w * delta, delta = 1 / fs
Scaled(w, fs) == [i \in DOMAIN w |-> [j \in DOMAIN w[i] |-> Frac(w[i][j], fs)]]

\* a[i] = b for arrays of the given shapes: b is broadcast to the shape of a[i]
Broadcasts(from, to) ==
    /\ Len(from) <= Len(to)
    /\ \A i \in 1..Len(from) :
          from[i] \in {1, to[Len(to) - Len(from) + i]}

\* PredictChecks with the test of the weights left out
PredictChecksTrained(self, stimulus, response) ==
    IF self.direction = 1 /\ stimulus = None THEN "ValueError"
    ELSE IF self.direction = -1 /\ response = None THEN "ValueError"
    ELSE ""

\* lines 296-301: the checks of the inputs
PredictChecks(self, stimulus, response) ==
    IF self.weights = None THEN "ValueError"
    ELSE IF self.direction = 1 /\ stimulus = None THEN "ValueError"
    ELSE IF self.direction = -1 /\ response = None THEN "ValueError"
    ELSE ""

NoPrediction(e) == [raised |-> e, prediction |-> None, scored |-> FALSE, w |-> None]

\* the call self.predict(stimulus, response, lag, feature) of the object self,
\* whose arrays are on heap h: what it raises, or the shape of the prediction
\* it returns and the flat matrix w it multiplied the lagged input with
predict(self, h, stimulus, response, lag, feature) ==
    LET expand(v) == IF v # None /\ ndim(v) = 2 THEN expand_dims(v) ELSE v
        stim == expand(stimulus)
        resp == expand(response)
        input == IF self.direction = 1 THEN stim ELSE resp
        truth == IF self.direction = 1 THEN resp ELSE stim
        weights == h[self.weights.ref]
        x == Trial(input)
        x_samples == x.shape[1]
        y_features == IF truth = None THEN ShapeOf(weights)[3]
                      ELSE Trial(truth).shape[2]
        times == PredictLags(h[self.times.ref], self.fs.num)
        \* lines 345-349: lags = list(np.array(lags)[lag]); w = w[:, lag, :]
        lag_of_lags == Select(lag, Len(times))
        lag_of_w == Select(lag, ShapeOf(weights)[2])
        lags == [i \in DOMAIN lag_of_lags |-> times[lag_of_lags[i]]]
        \* lines 350-355: w = w[feature, :, :]; x = x[:, feature]
        feature_of_w == Select(feature, ShapeOf(weights)[1])
        feature_of_x == Select(feature, x.shape[2])
        x_features == IF feature = None THEN x.shape[2] ELSE Len(Selection(feature))
        w == [f \in DOMAIN feature_of_w |-> [l \in DOMAIN lag_of_w |->
                 weights[feature_of_w[f]][lag_of_w[l]]]]
        rows == LagMatrixRows(x_samples, lags, self.zeropad)
        \* np.zeros(input.shape[:2] + (self.weights.shape[-1],))
        prediction == <<input.shape[1], input.shape[2], ShapeOf(weights)[3]>>
        y_pred == <<rows, y_features>>
    IN  IF PredictChecks(self, stimulus, response) # ""
        THEN NoPrediction(PredictChecks(self, stimulus, response))
        \* past the checks: None has no shape
        ELSE IF self.weights = None \/ input = None
        THEN NoPrediction("AttributeError")
        \* x_samples, x_features = x.shape
        ELSE IF ndim(x) # 2 \/ (truth # None /\ ndim(truth) # 3)
        THEN NoPrediction("ValueError")
        \* an index that is not in the axis it selects from
        ELSE IF OutOfRange(lag_of_lags) \/ OutOfRange(lag_of_w)
                    \/ OutOfRange(feature_of_w) \/ OutOfRange(feature_of_x)
        THEN NoPrediction("IndexError")
        \* w.reshape(x_features * len(lags), y_features, order="F")
        ELSE IF x_features * Len(lags) * y_features
                    # ShapeOf(w)[1] * ShapeOf(w)[2] * ShapeOf(w)[3]
        THEN NoPrediction("ValueError")
        \* np.concatenate([self.bias, w])
        ELSE IF y_features # Len(h[self.bias.ref][1])
        THEN NoPrediction("ValueError")
        \* prediction[i_trial] = y_pred
        ELSE IF ~Broadcasts(y_pred, Tail(prediction))
        THEN NoPrediction("ValueError")
        ELSE [raised |-> "",
              prediction |-> [shape |-> IF prediction[1] = 1 THEN Tail(prediction)
                                        ELSE prediction],
              scored |-> truth # None,
              w |-> Scaled(<<h[self.bias.ref][1]>>
                               \o ReshapeF(w, x_features * Len(lags), y_features),
                           self.fs.num)]

\* what the caller predicts on: the trial collection, or one held-out trial
HeldOut(x, n) == [shape |-> <<n, Features(x)>>]

PredictInputs ==
    {<<data.stimulus, data.response>>} \cup
    {<<HeldOut(data.stimulus, n), HeldOut(data.response, n)>> : n \in SampleCounts}

\* trf[m].predict(stimulus, response, lag, feature)
Predict(m, stimulus, response, lag, feature) ==
    /\ fit = Idle
    /\ Bound(m)
    /\ LET res == predict(trf[m], heap, stimulus, response, lag, feature)
       IN  last' = [op |-> "predict", self |-> m, stimulus |-> stimulus,
                    response |-> response, lag |-> lag, feature |-> feature,
                    raised |-> res.raised, prediction |-> res.prediction,
                    scored |-> res.scored, w |-> res.w]
    /\ UNCHANGED <<trf, heap, data, file, fit>>

\* training and prediction of one model
InitPredict == InitWith({"a"}, SomeConstructed, WellFormed(TrialCounts, {FALSE}))

NextPredict ==
    \/ \E tmin \in Times, tmax \in Times : Train("a", tmin, tmax, Num(MaxReg))
    \/ \E in \in PredictInputs, s \in BOOLEAN, r \in BOOLEAN :
          Predict("a", IF s THEN in[1] ELSE None, IF r THEN in[2] ELSE None,
                  None, None)

SpecPredict == InitPredict /\ [][NextPredict]_vars

\* C4: predict raises, and returns no prediction, when the model is untrained,
\* when a forward model is given no stimulus and when a backward model is
\* given no response (the ValueError of lines 297-301); the model's fields and
\* arrays are as before the call.
C4_PredictRaises ==
    [][(/\ last'.op = "predict"
        /\ \/ trf[last'.self].weights = None
           \/ trf[last'.self].direction = 1 /\ last'.stimulus = None
           \/ trf[last'.self].direction = -1 /\ last'.response = None)
          => (/\ last'.raised = "ValueError"
              /\ last'.prediction = None
              /\ trf' = trf
              /\ heap' = heap)]_vars

\* each of the three cases, the last two on a trained model
C4_Witness ==
    /\ last.op = "predict"
    /\ last.raised = "ValueError"
    /\ Trained(last.self)
    /\ trf[last.self].direction = -1
    /\ last.response = None
    /\ last.stimulus # None

\* C7 as claimed: predict of a trained model on a single trial of N samples
\* returns N rows with zero padding and N - (lag_max - lag_min) rows without,
\* one column per output feature.
C7_PredictionShape ==
    (/\ last.op = "predict"
     /\ Trained(last.self)
     /\ LET input == IF trf[last.self].direction = 1 THEN last.stimulus
                     ELSE last.response
        IN  input # None /\ (ndim(input) = 2 \/ input.shape[1] = 1))
    => LET self == trf[last.self]
           input == IF self.direction = 1 THEN last.stimulus ELSE last.response
           N == input.shape[Len(input.shape) - 1]
           lags == PredictLags(TimeAxis(last.self), self.fs.num)
           span == lags[Len(lags)] - lags[1]
       IN  /\ last.raised = ""
           /\ last.prediction.shape =
                 <<IF self.zeropad THEN N ELSE N - span,
                   ShapeOf(Weights(last.self))[3]>>

\* the lags and the features a caller restricts a prediction to
LagSelections == {None, Num(0), Num(-1), List(<<Num(1), Num(0)>>)}
FeatureSelections == {None, Num(MaxFeat - 1), List(<<Num(1), Num(0)>>)}

\* training of one model and prediction with all or some lags and features
InitFlatten == InitWith({"a"}, SomeConstructed, WellFormed({1}, {FALSE}))

NextFlatten ==
    \/ \E tmin \in Times, tmax \in Times, r \in Scalars : Train("a", tmin, tmax, r)
    \/ \E lag \in LagSelections, feature \in FeatureSelections :
          Predict("a", data.stimulus, data.response, lag, feature)

SpecFlatten == InitFlatten /\ [][NextFlatten]_vars

\* C12: the flat matrix predict builds has the bias as its first row and the
\* entry (feature f, lag l, output o) of the weight tensor, or of the part of
\* it the call selects, in row 1 + f + l * F (rows, f and l counted from 0, F the
\* number of features used), all times the sampling interval; with no
\* selection it is the matrix train unflattened, times the sampling interval.
C12_FlattenInvertsUnflatten ==
    (last.op = "predict" /\ last.raised = "") =>
        LET m == last.self
            tensor == Weights(m)
            fs == trf[m].fs.num
            F == ShapeOf(tensor)[1]
            L == ShapeOf(tensor)[2]
            O == ShapeOf(tensor)[3]
            features == Select(last.feature, F)
            lags == Select(last.lag, L)
            n == Len(features)
        IN  /\ Len(last.w) = 1 + n * Len(lags)
            /\ last.w[1] = Scaled(Bias(m), fs)[1]
            /\ \A f \in 1..n, l \in 1..Len(lags), o \in 1..O :
                  last.w[1 + f + (l - 1) * n][o] =
                      Frac(tensor[features[f]][lags[l]][o], fs)
            /\ (last.lag = None /\ last.feature = None) =>
                  last.w = Scaled(Solve(data, trf[m].regularization, 1 + F * L, O), fs)

\* a prediction with every lag and feature of a model of several features,
\* lags and outputs
C12_Witness ==
    /\ last.op = "predict"
    /\ last.raised = ""
    /\ last.lag = None /\ last.feature = None
    /\ \A i \in 1..3 : ShapeOf(Weights(last.self))[i] > 1

(***************************************************************************)
(* TRF.__add__ and TRF.__radd__                                            *)
(***************************************************************************)
Obj(m) == [tag |-> "TRF", id |-> m]
IsTRF(v) == v.tag = "TRF"

\* a += b for arrays of two and of three axes, b broadcast to the shape of a
Bc(i, n) == IF n = 1 THEN 1 ELSE i
IAdd2(a, b) ==
    [i \in 1..Len(a) |-> [j \in 1..Len(a[i]) |->
        a[i][j] + b[Bc(i, Len(b))][Bc(j, Len(b[1]))]]]
IAdd3(a, b) ==
    [i \in 1..Len(a) |-> [j \in 1..Len(a[i]) |-> [k \in 1..Len(a[i][j]) |->
        a[i][j][k] + b[Bc(i, Len(b))][Bc(j, Len(b[1]))][Bc(k, Len(b[1][1]))]]]]

\* line 89: the test that raises "Added TRFs must be of same kind and direction!"
AddMismatch(self, other) ==
    ~(self.direction = other.direction) /\ (self.kind = other.kind)

\* self + other, the result bound to slot dst
add(t, h, m, other, dst) ==
    LET self == t[m]
        o == t[other.id]
        c == copy(t, h, m, dst)
        trf_new == c.trf[dst]
        sumw == [c.heap EXCEPT ![trf_new.weights.ref] =
                    IAdd3(c.heap[trf_new.weights.ref], h[o.weights.ref])]
        sumb == [sumw EXCEPT ![trf_new.bias.ref] =
                    IAdd2(sumw[trf_new.bias.ref], h[o.bias.ref])]
    IN  IF ~IsTRF(other) THEN Raised(t, h, "TypeError")
        ELSE IF AddMismatch(self, o) THEN Raised(t, h, "ValueError")
        \* None += array, array += None
        ELSE IF self.weights = None \/ o.weights = None THEN Raised(t, h, "TypeError")
        ELSE IF ~Broadcasts(ShapeOf(h[o.weights.ref]), ShapeOf(h[self.weights.ref]))
        THEN Raised(t, h, "ValueError")
        ELSE IF ~Broadcasts(<<1, Len(h[o.bias.ref][1])>>,
                            <<1, Len(h[self.bias.ref][1])>>)
        THEN Raised(t, h, "ValueError")
        ELSE [trf |-> c.trf, heap |-> sumb, raised |-> ""]

\* other + self for an other that is no TRF: sum() starts from 0
radd(t, h, m, other, dst) ==
    IF other = Num(0)
    THEN LET c == copy(t, h, m, dst) IN [trf |-> c.trf, heap |-> c.heap, raised |-> ""]
    ELSE add(t, h, m, other, dst)

\* r = trf[m] + trf[n]
Add(m, n) ==
    /\ fit = Idle
    /\ Bound(m) /\ Bound(n)
    /\ LET res == add(trf, heap, m, Obj(n), "r")
       IN  /\ trf' = res.trf
           /\ heap' = res.heap
           /\ last' = [op |-> "add", self |-> m, other |-> Obj(n), result |-> "r",
                       raised |-> res.raised]
    /\ UNCHANGED <<data, file, fit>>

\* r = other + trf[m] for a number other
RAdd(m, other) ==
    /\ fit = Idle
    /\ Bound(m)
    /\ LET res == radd(trf, heap, m, other, "r")
       IN  /\ trf' = res.trf
           /\ heap' = res.heap
           /\ last' = [op |-> "radd", self |-> m, other |-> other, result |-> "r",
                       raised |-> res.raised]
    /\ UNCHANGED <<data, file, fit>>

\* the fields of the object in slot m, arrays by their contents
Value(t, h, m) ==
    [k \in Fields |->
        IF k \in FittedFields /\ IsArr(t[m][k])
        THEN [tag |-> "ndarray", data |-> h[t[m][k].ref]] ELSE t[m][k]]

\* the arrays the object in slot m refers to
ArraysOf(t, m) == {t[m][k].ref : k \in {f \in FittedFields : IsArr(t[m][f])}}

\* two models of any direction and kind, and their sums
InitSum ==
    InitWith({"a", "b"},
             {TRFInit(d, k, TRUE, TRUE, "ridge") : d \in Directions, k \in Kinds},
             {d \in WellFormed({1}, {FALSE}) : d.fs = MaxFs})

NextSum ==
    \/ \E m \in {"a", "b"}, tmax \in {0, MaxT} : Train(m, 0, tmax, Num(MaxReg))
    \/ \E m \in {"a", "b"}, n \in {"a", "b"} : Add(m, n)
    \/ \E m \in {"a", "b"}, other \in {Num(0), Num(1)} : RAdd(m, other)

SpecSum == InitSum /\ [][NextSum]_vars

\* C5 as claimed: a + b raises whenever a and b differ in direction or in
\* kind; when it succeeds both are the same and the result's weights and bias
\* are the elementwise sums of the operands'.
C5_AddRequiresSameKindAndDirection ==
    last.op = "add" =>
        LET a == trf[last.self]
            b == trf[last.other.id]
            same == a.direction = b.direction /\ a.kind = b.kind
        IN  /\ ~same => last.raised # ""
            /\ last.raised = "" =>
                  /\ same
                  /\ heap[trf["r"].weights.ref] = IAdd3(Weights(last.self),
                                                       Weights(last.other.id))
                  /\ heap[trf["r"].bias.ref] = IAdd2(Bias(last.self),
                                                    Bias(last.other.id))

\* C8: 0 + model returns a new model whose every field equals the original's
\* and which shares no array with it, and leaves the original as it was.
C8_RAddZeroCopies ==
    [][(last'.op = "radd" /\ last'.other = Num(0))
          => LET m == last'.self
                 r == last'.result
             IN  /\ last'.raised = ""
                 /\ Value(trf', heap', r) = Value(trf, heap, m)
                 /\ ArraysOf(trf', r) \cap ArraysOf(trf', m) = {}
                 /\ trf'[m] = trf[m]
                 /\ Value(trf', heap', m) = Value(trf, heap, m)]_vars

\* 0 + model for a trained model: the result holds arrays of its own
C8_Witness ==
    /\ last.op = "radd"
    /\ last.other = Num(0)
    /\ Trained(last.self)
    /\ Trained("r")
    /\ Cardinality(ArraysOf(trf, "r")) = 3

(***************************************************************************)
(* TRF.save and TRF.load                                                   *)
(***************************************************************************)
\* the attributes in the order __init__ sets them
KeyOrder ==
    <<"weights", "bias", "times", "fs", "regularization", "direction", "kind",
      "zeropad", "method">>

\* pickle.dump(self): the attributes one after the other, arrays by contents
Dumps(self, h) ==
    [i \in 1..Len(KeyOrder) |->
        LET k == KeyOrder[i]
        IN  [key |-> k,
             value |-> IF k \in FittedFields /\ IsArr(self[k])
                       THEN [tag |-> "ndarray", data |-> h[self[k].ref]]
                       ELSE self[k]]]

Entry(bytes, k) == bytes[CHOOSE i \in 1..Len(bytes) : bytes[i].key = k].value
Pickled(bytes, k) == k \in FittedFields /\ Entry(bytes, k).tag = "ndarray"

\* pickle.load: a new object, with new arrays (owned by the object in dst)
Loads(bytes, dst) ==
    [k \in Fields |-> IF Pickled(bytes, k) THEN Arr(<<dst, k>>) ELSE Entry(bytes, k)]

\* load that takes the fitted attributes from the file and keeps the rest
loadFitted(t, h, m, f) ==
    IF f = NoFile THEN Raised(t, h, "FileNotFoundError")
    ELSE [trf |-> [t EXCEPT ![m] = [k \in Fields |->
                      IF k \in FittedFields THEN Loads(f.bytes, m)[k] ELSE t[m][k]]],
          heap |-> [r \in Refs |->
                      IF r[1] = m
                      THEN IF Pickled(f.bytes, r[2]) THEN Entry(f.bytes, r[2]).data
                           ELSE Free
                      ELSE h[r]],
          raised |-> ""]

\* self.load(path): self.__dict__ = pickle.load(...).__dict__
load(t, h, m, f) ==
    IF f = NoFile THEN Raised(t, h, "FileNotFoundError")
    ELSE [trf |-> [t EXCEPT ![m] = Loads(f.bytes, m)],
          heap |-> [r \in Refs |->
                      IF r[1] = m
                      THEN IF Pickled(f.bytes, r[2]) THEN Entry(f.bytes, r[2]).data
                           ELSE Free
                      ELSE h[r]],
          raised |-> ""]

\* trf[m].save(path), where the directory of path exists or does not;
\* saved: the model as it was when it was saved
Save(m, parent_exists) ==
    /\ fit = Idle
    /\ Bound(m)
    /\ file' = IF parent_exists
               THEN [tag |-> "file", bytes |-> Dumps(trf[m], heap),
                     saved |-> Value(trf, heap, m)]
               ELSE file
    /\ last' = [op |-> "save", self |-> m,
                raised |-> IF parent_exists THEN "" ELSE "FileNotFoundError"]
    /\ UNCHANGED <<trf, heap, data, fit>>

\* trf[m].load(path)
Load(m) ==
    /\ fit = Idle
    /\ Bound(m)
    /\ LET res == load(trf, heap, m, file)
       IN  /\ trf' = res.trf
           /\ heap' = res.heap
           /\ last' = [op |-> "load", self |-> m, raised |-> res.raised]
    /\ UNCHANGED <<data, file, fit>>

\* two models of any construction, one file
InitStore ==
    InitWith({"a", "b"}, SomeConstructed,
             {d \in WellFormed({1}, {FALSE}) : d.fs = MaxFs})

NextStore ==
    \/ \E m \in {"a", "b"}, tmax \in {0, MaxT} : Train(m, 0, tmax, Num(MaxReg))
    \/ \E m \in {"a", "b"}, e \in BOOLEAN : Save(m, e)
    \/ \E m \in {"a", "b"} : Load(m)

SpecStore == InitStore /\ [][NextStore]_vars

\* C10: save leaves the saved model unchanged, and load of the saved file into
\* any model makes every field of that model, its weights and bias among
\* them, equal to the field of the model that was saved.
C10_SaveLoadRoundTrip ==
    [][/\ (last'.op = "save" /\ last'.raised = "")
            => (trf' = trf /\ heap' = heap
                /\ file'.saved = Value(trf, heap, last'.self))
       /\ (last'.op = "load" /\ last'.raised = "")
            => Value(trf', heap', last'.self) = file.saved]_vars

\* a trained backward model was saved and loaded into the other model
C10_Witness ==
    /\ last.op = "load"
    /\ last.raised = ""
    /\ Trained(last.self)
    /\ trf[last.self].direction = -1
    /\ file.saved.method = "tikhonov"
    /\ Value(trf, heap, "a") = Value(trf, heap, "b")

(***************************************************************************)
(* TRF.fit.  A search runs in steps: the call, one cross-validation per    *)
(* candidate, and the selection with the final training.                   *)
(***************************************************************************)
\* np.isscalar(regularization)
IsScalar(regularization) == regularization.tag = "num"

\* list(product(regularization, repeat=2)), each pair made a penalty matrix
\* by mtrf.matrices.banded_regularization_coefficients
BandedCandidates(items) ==
    [i \in 1..(Len(items) * Len(items)) |->
        Mat(TRUE, <<items[((i - 1) \div Len(items)) + 1].num,
                    items[((i - 1) % Len(items)) + 1].num>>)]

\* a score as np.argmax orders it: nan is above every number
ScoreGeq(x, y) == x = NaN \/ (y # NaN /\ x.num >= y.num)

\* ArgMax that keeps the last of several maxima
RECURSIVE ArgMaxLastFrom(_, _, _)
ArgMaxLastFrom(correlation, i, best) ==
    IF i > Len(correlation) THEN best
    ELSE ArgMaxLastFrom(correlation, i + 1,
                        IF ScoreGeq(correlation[i], correlation[best]) THEN i ELSE best)
ArgMaxLast(correlation) == ArgMaxLastFrom(correlation, 1, 1)

\* np.argmax(correlation), counted from 1: a scan that keeps the first maximum
RECURSIVE ArgMaxFrom(_, _, _)
ArgMaxFrom(correlation, i, best) ==
    IF i > Len(correlation) THEN best
    ELSE ArgMaxFrom(correlation, i + 1,
                    IF ScoreGeq(correlation[best], correlation[i]) THEN best ELSE i)
ArgMax(correlation) == ArgMaxFrom(correlation, 1, 1)

\* mtrf.crossval.cross_validate(model, ...): the model is trained on the
\* held-in trials and predicts the held-out ones, which are scored
cross_validate(t, h, m, d, tmin, tmax, r) ==
    LET tr == train(t, h, m, d, d.stimulus, d.response, d.fs, tmin, tmax, r)
        p == predict(tr.trf[m], tr.heap, d.stimulus, d.response, None, None)
    IN  IF tr.raised # "" THEN tr
        ELSE [trf |-> tr.trf, heap |-> tr.heap, raised |-> p.raised]

\* what one cross-validation returns: the mean correlation and the mean error
CVOutcomes ==
    {[correlation |-> Num(c), error |-> Num(MaxCorr - c)] : c \in 0..MaxCorr}
        \cup {[correlation |-> NaN, error |-> Num(0)]}

\* a search that hands self itself to cross_validate
CVModelShared(m) == m

\* the model handed to cross_validate: a copy of self, bound to slot cv
CVModel(m) == "cv"

\* the object of slot m and its arrays are dropped
Drop(t, h, m) ==
    [trf |-> [t EXCEPT ![m] = NoModel],
     heap |-> [r \in Refs |-> IF r[1] = m THEN Free ELSE h[r]]]

\* a completed fit call: its arguments, what it raised or returned, and what
\* it did: the calls of train and of cross_validate it made, the value it
\* trained with and, per cross-validation, the candidate and the scores
FitReturn(m, regularization, features, raised, correlation, error, trains, log, with) ==
    [op |-> "fit", self |-> m, regularization |-> regularization,
     features |-> features, raised |-> raised, correlation |-> correlation,
     error |-> error, trains |-> trains, cvs |-> Len(log), log |-> log,
     with |-> with]

\* trf[m].fit(stimulus, response, fs, tmin, tmax, regularization, features):
\* lines 149-176
FitCall(m, tmin, tmax, regularization, features) ==
    /\ fit = Idle
    /\ Bound(m)
    /\ ValidWindow(data.fs, tmin, tmax)
    /\ LET self == trf[m]
           raise(e) == /\ last' = FitReturn(m, regularization, features, e,
                                            None, None, 0, <<>>, None)
                       /\ UNCHANGED <<trf, heap, fit>>
           candidates == IF self.method = "banded"
                         THEN BandedCandidates(regularization.items)
                         ELSE regularization.items
           res == train(trf, heap, m, data, data.stimulus, data.response,
                        data.fs, tmin, tmax, regularization)
       IN  IF ~(ndim(data.stimulus) = 3) /\ ndim(data.response) = 3
           THEN raise("ValueError")
           ELSE IF self.method = "banded" /\ features = None
           THEN raise("ValueError")
           \* product(regularization, repeat=2) of a number
           ELSE IF self.method = "banded" /\ IsScalar(regularization)
           THEN raise("TypeError")
           ELSE IF IsScalar(regularization)
           THEN /\ trf' = res.trf
                /\ heap' = res.heap
                /\ last' = FitReturn(m, regularization, features, res.raised,
                                     None, None, 1, <<>>, regularization)
                /\ fit' = fit
           ELSE /\ fit' = [pc |-> "cv", self |-> m, tmin |-> tmin, tmax |-> tmax,
                           regularization |-> regularization, features |-> features,
                           candidates |-> candidates, ir |-> 1,
                           correlation |-> [i \in 1..Len(candidates) |-> Num(0)],
                           error |-> [i \in 1..Len(candidates) |-> Num(0)],
                           log |-> <<>>]
                /\ last' = NoCall
                /\ UNCHANGED <<trf, heap>>
    /\ UNCHANGED <<data, file>>

\* lines 177-182: one turn of the loop over the candidates
FitCrossValidate ==
    /\ fit.pc = "cv"
    /\ fit.ir <= Len(fit.candidates)
    /\ LET m == fit.self
           r == fit.candidates[fit.ir]
           target == CVModel(m)
           c == IF target = m THEN [trf |-> trf, heap |-> heap]
                ELSE copy(trf, heap, m, target)
           cv == cross_validate(c.trf, c.heap, target, data, fit.tmin, fit.tmax, r)
           gone == Drop(cv.trf, cv.heap, "cv")
       IN  IF cv.raised # ""
           THEN /\ trf' = gone.trf
                /\ heap' = gone.heap
                /\ fit' = Idle
                /\ last' = FitReturn(m, fit.regularization, fit.features, cv.raised,
                                     None, None, 0,
                                     Append(fit.log, [candidate |-> r, out |-> None]),
                                     None)
           ELSE \E out \in CVOutcomes :
                /\ trf' = cv.trf
                /\ heap' = cv.heap
                /\ fit' = [fit EXCEPT !.correlation[fit.ir] = out.correlation,
                                      !.error[fit.ir] = out.error,
                                      !.ir = fit.ir + 1,
                                      !.log = Append(fit.log,
                                                 [candidate |-> r, out |-> out])]
                /\ last' = last
    /\ UNCHANGED <<data, file>>

\* lines 183-185: the best candidate is chosen and the model trained with it
FitSelect ==
    /\ fit.pc = "cv"
    /\ fit.ir > Len(fit.candidates)
    /\ LET m == fit.self
           gone == Drop(trf, heap, "cv")
           n == Len(fit.candidates)
           best == fit.candidates[ArgMax(fit.correlation)]
           res == train(gone.trf, gone.heap, m, data, data.stimulus, data.response,
                        data.fs, fit.tmin, fit.tmax, best)
       IN  \* np.argmax of an empty array
           IF n = 0
           THEN /\ trf' = gone.trf
                /\ heap' = gone.heap
                /\ last' = FitReturn(m, fit.regularization, fit.features,
                                     "ValueError", None, None, 0, fit.log, None)
           ELSE /\ trf' = res.trf
                /\ heap' = res.heap
                /\ last' = FitReturn(m, fit.regularization, fit.features, res.raised,
                                     IF res.raised = "" THEN List(fit.correlation)
                                     ELSE None,
                                     IF res.raised = "" THEN List(fit.error) ELSE None,
                                     1, fit.log, best)
    /\ fit' = Idle
    /\ UNCHANGED <<data, file>>

Ascending(items) == \A i \in 1..(Len(items) - 1) : items[i].num < items[i + 1].num

\* the candidate lists: up to MaxCand values of 0..MaxReg in ascending order
Lists ==
    {List(s) : s \in {q \in UNION {[1..n -> {Num(c) : c \in 0..MaxReg}] :
                                       n \in 0..MaxCand} : Ascending(q)}}

\* the sizes of the bands of the stimulus features
Bands == List(<<1, 1>>)

\* fitting of one model, on any data; the search of a banded model is over
\* the pairs of at most two coefficients
InitFit ==
    InitWith({"a"}, SomeConstructed,
             {d \in WellFormed({MaxTrials}, BOOLEAN) :
                 /\ d.fs = MaxFs
                 /\ Features(d.stimulus) = MaxFeat
                 /\ Features(d.response) = 1} \cup IllFormed)

NextFit ==
    \/ \E tmax \in {0, MaxT}, r \in Scalars \cup Lists, features \in {None, Bands} :
          /\ trf["a"].method = "banded" <=> features # None
          /\ (trf["a"].method = "banded" /\ ~IsScalar(r)) => Len(r.items) <= 2
          /\ FitCall("a", 0, tmax, r, features)
    \/ \E tmax \in {0, MaxT} :
          /\ trf["a"].method = "banded"
          /\ FitCall("a", 0, tmax, Num(MaxReg), None)
    \/ FitCrossValidate
    \/ FitSelect

SpecFit == InitFit /\ [][NextFit]_vars

FitReturned == last.op = "fit" /\ last.raised = ""

\* C2: a fit (of a model that is not banded) with a list of n candidates
\* returns a correlation and an error array of length n, entry i the result of
\* the cross-validation of candidate i, and leaves as the model's
\* regularization the candidate at the first index of the maximum correlation.
C2_FitSelectsFirstMaximum ==
    (FitReturned /\ ~IsScalar(last.regularization)
        /\ trf[last.self].method # "banded") =>
        LET items == last.regularization.items
            n == Len(items)
            correlation == last.correlation.items
            error == last.error.items
        IN  /\ Len(correlation) = n /\ Len(error) = n /\ Len(last.log) = n
            /\ \A i \in 1..n :
                  /\ last.log[i].candidate = items[i]
                  /\ correlation[i] = last.log[i].out.correlation
                  /\ error[i] = last.log[i].out.error
            /\ \E i \in 1..n :
                  /\ \A j \in 1..n : ScoreGeq(correlation[i], correlation[j])
                  /\ \A j \in 1..(i - 1) : ~ScoreGeq(correlation[j], correlation[i])
                  /\ trf[last.self].regularization = items[i]

\* a search over two different candidates that score the same
C2_Witness ==
    /\ FitReturned
    /\ ~IsScalar(last.regularization)
    /\ trf[last.self].method # "banded"
    /\ Len(last.regularization.items) = 2
    /\ last.regularization.items[1] # last.regularization.items[2]
    /\ last.correlation.items[1] = last.correlation.items[2]
    /\ last.correlation.items[1] # NaN

\* C3 as claimed: a fit with a scalar regularization, of a model of any
\* method (with the band sizes when it is banded, on rank 3 data), calls
\* train once, with that value, and never cross_validate.
C3_ScalarFitTrainsOnce ==
    (/\ last.op = "fit"
     /\ IsScalar(last.regularization)
     /\ ndim(data.stimulus) = 3 /\ ndim(data.response) = 3
     /\ trf[last.self].method = "banded" => last.features # None)
    => (last.trains = 1 /\ last.cvs = 0 /\ last.with = last.regularization)

\* C11 as claimed: a fit on data whose stimulus or whose response is not of
\* rank 3 raises, and has called neither train nor cross_validate.
C11_FitRequiresRank3 ==
    (/\ last.op = "fit"
     /\ (ndim(data.stimulus) # 3 \/ ndim(data.response) # 3))
    => (last.raised # "" /\ last.trains = 0 /\ last.cvs = 0)

\* C13: from the call of a search to the scoring of its last candidate the
\* caller's model keeps every field and every array it had before the call;
\* each cross-validation runs on a copy that shares no array with it.  Only
\* the step that follows the last cross-validation (the selection and the
\* final training) changes the caller's model.
C13_CrossValidationOnCopies ==
    [][(/\ fit.pc = "cv" \/ fit'.pc = "cv"
        /\ ~(fit.pc = "cv" /\ fit.ir > Len(fit.candidates)))
          => LET m == IF fit.pc = "cv" THEN fit.self ELSE fit'.self
             IN  /\ trf'[m] = trf[m]
                 /\ \A k \in ArrayFields : heap'[<<m, k>>] = heap[<<m, k>>]
                 /\ (fit.pc = "cv" /\ Bound("cv")')
                        => ArraysOf(trf', "cv") \cap ArraysOf(trf', m) = {}]_vars

\* a search on a model trained before, after a cross-validation that trained
\* its copy with another regularization
C13_Witness ==
    /\ fit.pc = "cv"
    /\ fit.ir > 1
    /\ Trained(fit.self)
    /\ Bound("cv")
    /\ Trained("cv")
    /\ trf["cv"].regularization # trf[fit.self].regularization

(***************************************************************************)
(* The whole class: two models constructed with the default arguments but   *)
(* for their direction, one well-formed data set, every method.             *)
(***************************************************************************)
Init ==
    InitWith({"a", "b"},
             {TRFInit(d, "multi", TRUE, TRUE, "ridge") : d \in Directions},
             {DataSet(3, 3, 1, MaxSamples, MaxFeat, 1, MaxFs, FALSE)})

Callers == {"a", "b"}

Next ==
    \/ \E m \in Callers : Train(m, 0, MaxT, Num(MaxReg))
    \/ \E m \in Callers, r \in {Num(MaxReg), List(<<Num(0), Num(MaxReg)>>)} :
          FitCall(m, 0, MaxT, r, None)
    \/ FitCrossValidate
    \/ FitSelect
    \/ \E m \in Callers, s \in {None, data.stimulus}, r \in {None, data.response} :
          Predict(m, s, r, None, None)
    \/ \E m \in Callers, n \in Callers : Add(m, n)
    \/ \E m \in Callers : RAdd(m, Num(0))
    \/ \E m \in Callers, e \in BOOLEAN : Save(m, e)
    \/ \E m \in Callers : Load(m)

Spec == Init /\ [][Next]_vars

====
